---- MODULE Spec2Model ----
(***************************************************************************)
(* Capture-and-persist pipeline of msfs-geoshot.                           *)
(*                                                                         *)
(*   ScreenShotService.take_screenshot   gui/screenshots.py                *)
(*   MainWindow.take_screenshot          gui/main_window.py                *)
(*   get_window_ids_by_process_name ...  windows.py                        *)
(*                                                                         *)
(* Optional[T] values are sequences: None is <<>>, a present value v is    *)
(* <<v>>.  Collaborators that live outside the repository (SimService,     *)
(* ExifService, QImageWriter, win32gui, psutil) answer nondeterministically*)
(* over the outcomes they can produce.                                     *)
(***************************************************************************)
EXTENDS Integers, Sequences, FiniteSets, TLC

VARIABLES
    clock,            \* time.time(), in ticks of 1/TicksPerSecond second
    disk,             \* path -> [image, exif]: the files that exist
    target_folder,    \* ScreenShotService._target_folder / settings.screenshot_folder
    ncalls,           \* number of take_screenshot invocations so far
    handler,          \* which take_screenshot is running: "none", "svc", "mw"
    pc,               \* position inside the running take_screenshot
    image_format,     \* argument image_format
    sim_outcome,      \* what the telemetry source answered: "pending", "raised", "none", "data"
    location_data,    \* local location_data / exif_data (Optional)
    capture_time,     \* local capture_time (Optional)
    out_path,         \* local out_path / screenshot (Optional)
    encoder,          \* the QImageWriter's properties set so far
    write_ok,         \* return value of image_writer.write (Optional)
    exif_calls,       \* calls of ExifService.write_data made by this capture
    exif_ok,          \* return value of ExifService.write_data (Optional)
    result,           \* what take_screenshot gave back to its caller
    printed,          \* errors printed to stdout by this capture
    notification,     \* last notification of the main window in this capture
    last_screenshot,  \* MainWindow._last_screenshot
    last_exif_data,   \* MainWindow._last_exif_data
    events,           \* order of the collaborator calls of this capture
    previous,         \* the last returned capture that had resolved a path (Optional)
    service_fields,   \* ScreenShotService._sim_service and ._exif_service
    processes,        \* psutil.process_iter(): sequence of [name, pid]
    windows,          \* EnumWindows order: sequence of [id, pid, visible, title]
    handles,          \* window ids a caller holds from an earlier lookup
    lookup,           \* outcome of the last get_window_ids_by_process_name
    winop,            \* outcome of the last title / rectangle / raise call
    connections,      \* signal -> number of connections to its settings handler
    widgets,          \* signal -> state of the input widget that emits it
    settings,         \* AppSettings: signal -> stored value
    reload,           \* what the last restore-defaults saw while it reloaded the UI
    restores,         \* number of restore-defaults clicks so far
    last_metadata,    \* msfs_geoshot MainWindow._last_metadata (Optional)
    shown_screenshot, \* msfs_geoshot MainWindow._last_screenshot (Optional)
    view_last_location, \* the view-last-location button: [visible, enabled]
    delivered,        \* metadata of the screenshot results delivered, oldest first
    opened            \* outcome of the last click on view-last-location

capture_vars == <<clock, disk, target_folder, ncalls, handler, pc, image_format,
                  sim_outcome, location_data, capture_time, out_path, encoder,
                  write_ok, exif_calls, exif_ok, result, printed, notification,
                  last_screenshot, last_exif_data, events, previous, service_fields>>

window_vars == <<processes, windows, handles, lookup, winop>>

gui_vars == <<connections, widgets, settings, reload, restores, last_metadata,
              shown_screenshot, view_last_location, delivered, opened>>

vars == <<clock, disk, target_folder, ncalls, handler, pc, image_format,
          sim_outcome, location_data, capture_time, out_path, encoder,
          write_ok, exif_calls, exif_ok, result, printed, notification,
          last_screenshot, last_exif_data, events, previous, service_fields,
          processes, windows, handles, lookup, winop,
          connections, widgets, settings, reload, restores, last_metadata,
          shown_screenshot, view_last_location, delivered, opened>>

----------------------------------------------------------------------------
(* Bounds *)

MaxCalls == 2          \* take_screenshot invocations per behaviour
MaxClock == 3          \* last clock tick
TicksPerSecond == 2    \* clock ticks per second of the file-name date

----------------------------------------------------------------------------
(* Optional values *)

None == <<>>
Some(v) == <<v>>
IsSome(o) == o # <<>>
Get(o) == o[1]

----------------------------------------------------------------------------
(* screenshots.py: formats and encoder settings *)

ImageFormat == {"png", "jpg", "tiff"}

_ImageFormatSettings(ext, q, c, o, p) ==
    [extension |-> ext, quality |-> q, compression |-> c,
     optimized_write |-> o, progressive_scan_write |-> p]

\* the table with the jpg row carrying the png row's compression as well
_settings_jpg_with_compression ==
    [f \in ImageFormat |->
        CASE f = "png"  -> _ImageFormatSettings("png", None, Some(100), Some(TRUE), Some(TRUE))
          [] f = "jpg"  -> _ImageFormatSettings("jpg", Some(100), Some(100), None, None)
          [] f = "tiff" -> _ImageFormatSettings("tiff", None, Some(1), None, None)]

_settings_by_image_format ==
    [f \in ImageFormat |->
        CASE f = "png"  -> _ImageFormatSettings("png", None, Some(100), Some(TRUE), Some(TRUE))
          [] f = "jpg"  -> _ImageFormatSettings("jpg", Some(100), None, None, None)
          [] f = "tiff" -> _ImageFormatSettings("tiff", None, Some(1), None, None)]

_date_format == "%Y-%m-%d-%H%M%S"
_file_stem_format == <<"MSFS_", "{date}">>     \* "MSFS_{date}", split at the field

\* the instant of clock tick 0 is 2024-01-01 12:00:00 local time
TwoDigits(n) == IF n < 10 THEN "0" \o ToString(n) ELSE ToString(n)

\* a date format that also prints the fraction of the second
strftime_with_fraction(t) ==
    LET total == t \div TicksPerSecond
    IN  "2024-01-01-12" \o TwoDigits((total \div 60) % 60) \o TwoDigits(total % 60)
        \o "." \o ToString(t % TicksPerSecond)

\* datetime.fromtimestamp(t, tz).strftime(_date_format): whole seconds only
strftime(t) ==
    LET total == t \div TicksPerSecond
    IN  "2024-01-01-12" \o TwoDigits((total \div 60) % 60) \o TwoDigits(total % 60)

RECURSIVE str_format(_, _)
\* template.format(date=d)
str_format(template, d) ==
    IF template = <<>> THEN ""
    ELSE (IF Head(template) = "{date}" THEN d ELSE Head(template))
         \o str_format(Tail(template), d)

\* Path.__truediv__
PathJoin(folder, name) == folder \o "/" \o name

\* the path without the join with the target folder
_get_new_screenshot_path_unjoined(folder, now, fmt) ==
    str_format(_file_stem_format, strftime(now)) \o "."
    \o _settings_by_image_format[fmt].extension

\* ScreenShotService._get_new_screenshot_path, given the value time.time() returned
_get_new_screenshot_path(folder, now, fmt) ==
    LET datetime_string == strftime(now)
        image_format_settings == _settings_by_image_format[fmt]
        file_stem == str_format(_file_stem_format, datetime_string)
        file_name == file_stem \o "." \o image_format_settings.extension
    IN  PathJoin(folder, file_name)

\* QImageWriter(): nothing set yet
NewImageWriter ==
    [fileName |-> None, format |-> None, compression |-> None, quality |-> None,
     optimizedWrite |-> None, progressiveScanWrite |-> None]

\* the configuration with no 'is not None' guards: an absent field is set to 0 / False
ConfigureWriter_unguarded(path, fmt) ==
    LET s == _settings_by_image_format[fmt]
        orZero(o) == IF IsSome(o) THEN o ELSE Some(0)
        orFalse(o) == IF IsSome(o) THEN o ELSE Some(FALSE)
    IN  [fileName |-> Some(path), format |-> Some(fmt),
         compression |-> orZero(s.compression), quality |-> orZero(s.quality),
         optimizedWrite |-> orFalse(s.optimized_write),
         progressiveScanWrite |-> orFalse(s.progressive_scan_write)]

\* ScreenShotService._grab_screenshot up to (not including) image_writer.write
ConfigureWriter(path, fmt) ==
    LET s == _settings_by_image_format[fmt]
        w0 == [NewImageWriter EXCEPT !.fileName = Some(path), !.format = Some(fmt)]
        w1 == IF IsSome(s.compression) THEN [w0 EXCEPT !.compression = s.compression] ELSE w0
        w2 == IF IsSome(s.quality) THEN [w1 EXCEPT !.quality = s.quality] ELSE w1
        w3 == IF IsSome(s.optimized_write)
              THEN [w2 EXCEPT !.optimizedWrite = s.optimized_write] ELSE w2
        w4 == IF IsSome(s.progressive_scan_write)
              THEN [w3 EXCEPT !.progressiveScanWrite = s.progressive_scan_write] ELSE w3
    IN  w4

----------------------------------------------------------------------------
(* The file system and the collaborators *)

TargetFolders == {"/out", "/shots"}

\* telemetry the simulator can report; a snapshot without a GPS fix has no coordinates
Telemetry ==
    { [GPSLatitude |-> Some(10), GPSLongitude |-> Some(20), GPSAltitude |-> Some(500), GPSSpeed |-> Some(60)],
      [GPSLatitude |-> None, GPSLongitude |-> None, GPSAltitude |-> Some(500), GPSSpeed |-> Some(60)] }

\* main_window.py: mock_exif_data
mock_exif_data ==
    [GPSLatitude |-> Some(30), GPSLongitude |-> Some(30), GPSAltitude |-> Some(100), GPSSpeed |-> Some(200)]

\* answers of SimService.get_current_location / get_flight_data
SimAnswers ==
    {[kind |-> "raise", data |-> None], [kind |-> "none", data |-> None]}
    \cup {[kind |-> "data", data |-> Some(t)] : t \in Telemetry}

\* Python truthiness of an Optional object: None is false, an instance is true
Truthy(o) == IsSome(o)

\* image_writer.write(image) on the file system: a successful write puts the image of
\* capture n at path (replacing what was there); a failed one leaves the disk alone
WriteImage(d, path, n, ok) ==
    IF ok THEN [p \in DOMAIN d \cup {path} |->
                   IF p = path THEN [image |-> n, exif |-> None] ELSE d[p]]
    ELSE d

\* ExifService.write_data on the file system: tags embedded on success only
EmbedExif(d, path, data, ok) ==
    IF ok /\ path \in DOMAIN d
    THEN [d EXCEPT ![path] = [@ EXCEPT !.exif = Some(data)]]
    ELSE d

\* the writer cannot succeed on a file that is not there
ExifAnswers(d, path) == IF path \in DOMAIN d THEN BOOLEAN ELSE {FALSE}

\* _write_metadata that cleans the image up when the writer reports failure
_write_metadata_removing(d, location_data_, screenshot, ok) ==
    IF ok THEN EmbedExif(d, screenshot, location_data_, ok)
    ELSE [p \in DOMAIN d \ {screenshot} |-> d[p]]

\* ScreenShotService._write_metadata: one write_data call, its answer is not looked at
_write_metadata(d, location_data_, screenshot, ok) ==
    EmbedExif(d, screenshot, location_data_, ok)

NoResult == [type |-> "pending", value |-> ""]
Returned(type, value) == [type |-> type, value |-> value]
NoNotification == [color |-> "none", message |-> ""]

----------------------------------------------------------------------------
(* ScreenShotService.take_screenshot, screenshots.py *)

\* a caller invokes take_screenshot(image_format)
Svc_take_screenshot(fmt) ==
    /\ pc = "idle"
    /\ handler \in {"none", "svc"}      \* one version of the program per run
    /\ ncalls < MaxCalls
    /\ ncalls' = ncalls + 1
    /\ handler' = "svc"
    /\ pc' = "get_location"
    /\ image_format' = fmt
    /\ sim_outcome' = "pending"
    /\ location_data' = None
    /\ capture_time' = None
    /\ out_path' = None
    /\ encoder' = NewImageWriter
    /\ write_ok' = None
    /\ exif_calls' = <<>>
    /\ exif_ok' = None
    /\ result' = NoResult
    /\ printed' = <<>>
    /\ notification' = NoNotification
    /\ events' = <<>>
    /\ UNCHANGED <<clock, disk, target_folder, last_screenshot, last_exif_data>>
    /\ UNCHANGED <<previous, service_fields>>
    /\ UNCHANGED window_vars
    /\ UNCHANGED gui_vars

\* lines 71-75: the telemetry query; SimServiceError is printed and None returned
Svc_get_current_location(answer) ==
    /\ handler = "svc" /\ pc = "get_location"
    /\ events' = Append(events, "sim")
    /\ IF answer.kind = "raise"
       THEN /\ sim_outcome' = "raised"
            /\ printed' = Append(printed, "SimServiceError")
            /\ result' = Returned("NoneType", "")
            /\ pc' = "done"
            /\ UNCHANGED location_data
       ELSE /\ sim_outcome' = answer.kind
            /\ location_data' = answer.data
            /\ pc' = "new_path"
            /\ UNCHANGED <<printed, result>>
    /\ UNCHANGED <<clock, disk, target_folder, ncalls, handler, image_format,
                   capture_time, out_path, encoder, write_ok, exif_calls, exif_ok,
                   notification, last_screenshot, last_exif_data>>
    /\ UNCHANGED <<previous, service_fields>>
    /\ UNCHANGED window_vars
    /\ UNCHANGED gui_vars

\* a path step that stores the joined path back into self._target_folder
Svc_get_new_screenshot_path_storing ==
    /\ handler = "svc" /\ pc = "new_path"
    /\ events' = Append(events, "clock")
    /\ capture_time' = Some(clock)
    /\ out_path' = Some(_get_new_screenshot_path(target_folder, clock, image_format))
    /\ target_folder' = Get(out_path')
    /\ pc' = "grab"
    /\ UNCHANGED <<clock, disk, ncalls, handler, image_format,
                   sim_outcome, location_data, encoder, write_ok, exif_calls, exif_ok,
                   result, printed, notification, last_screenshot, last_exif_data>>
    /\ UNCHANGED <<previous, service_fields>>
    /\ UNCHANGED window_vars
    /\ UNCHANGED gui_vars

\* line 77: out_path = self._get_new_screenshot_path(image_format)
Svc_get_new_screenshot_path ==
    /\ handler = "svc" /\ pc = "new_path"
    /\ events' = Append(events, "clock")
    /\ capture_time' = Some(clock)
    /\ out_path' = Some(_get_new_screenshot_path(target_folder, clock, image_format))
    /\ pc' = "grab"
    /\ UNCHANGED <<clock, disk, target_folder, ncalls, handler, image_format,
                   sim_outcome, location_data, encoder, write_ok, exif_calls, exif_ok,
                   result, printed, notification, last_screenshot, last_exif_data>>
    /\ UNCHANGED <<previous, service_fields>>
    /\ UNCHANGED window_vars
    /\ UNCHANGED gui_vars

\* a grab step that names the file after the time of the write, not of the clock read
Svc_grab_screenshot_late_name(ok) ==
    /\ handler = "svc" /\ pc = "grab"
    /\ events' = events \o <<"grab", "write">>
    /\ out_path' = Some(_get_new_screenshot_path(target_folder, clock, image_format))
    /\ encoder' = ConfigureWriter(Get(out_path'), image_format)
    /\ disk' = WriteImage(disk, Get(out_path'), ncalls, ok)
    /\ write_ok' = Some(ok)
    /\ pc' = "metadata"
    /\ UNCHANGED <<clock, target_folder, ncalls, handler, image_format, sim_outcome,
                   location_data, capture_time, exif_calls, exif_ok, result,
                   printed, notification, last_screenshot, last_exif_data>>
    /\ UNCHANGED <<previous, service_fields>>
    /\ UNCHANGED window_vars
    /\ UNCHANGED gui_vars

\* line 79: self._grab_screenshot(...); the bool image_writer.write returns is dropped
Svc_grab_screenshot(ok) ==
    /\ handler = "svc" /\ pc = "grab"
    /\ events' = events \o <<"grab", "write">>
    /\ encoder' = ConfigureWriter(Get(out_path), image_format)
    /\ disk' = WriteImage(disk, Get(out_path), ncalls, ok)
    /\ write_ok' = Some(ok)
    /\ pc' = "metadata"
    /\ UNCHANGED <<clock, target_folder, ncalls, handler, image_format, sim_outcome,
                   location_data, capture_time, out_path, exif_calls, exif_ok, result,
                   printed, notification, last_screenshot, last_exif_data>>
    /\ UNCHANGED <<previous, service_fields>>
    /\ UNCHANGED window_vars
    /\ UNCHANGED gui_vars

\* lines 80-83: if location_data: self._write_metadata(...); return out_path
Svc_write_metadata(ok) ==
    /\ handler = "svc" /\ pc = "metadata"
    /\ IF Truthy(location_data)
       THEN /\ ok \in ExifAnswers(disk, Get(out_path))
            /\ events' = Append(events, "exif")
            /\ exif_calls' = Append(exif_calls,
                                    [data |-> Get(location_data), path |-> Get(out_path)])
            /\ disk' = _write_metadata(disk, Get(location_data), Get(out_path), ok)
            /\ exif_ok' = Some(ok)
       ELSE /\ ok = FALSE
            /\ UNCHANGED <<events, exif_calls, disk, exif_ok>>
    /\ result' = Returned("Path", Get(out_path))
    /\ pc' = "done"
    /\ UNCHANGED <<clock, target_folder, ncalls, handler, image_format, sim_outcome,
                   location_data, capture_time, out_path, encoder, write_ok,
                   printed, notification, last_screenshot, last_exif_data>>
    /\ UNCHANGED <<previous, service_fields>>
    /\ UNCHANGED window_vars
    /\ UNCHANGED gui_vars

\* the arguments and locals of a returned capture that a later one is compared with
Finished ==
    [image_format |-> image_format, capture_time |-> Get(capture_time),
     out_path |-> Get(out_path)]

\* the call has returned; the service is ready for the next one
Svc_finished ==
    /\ handler = "svc" /\ pc = "done"
    /\ pc' = "idle"
    /\ UNCHANGED <<clock, disk, target_folder, ncalls, handler, image_format,
                   sim_outcome, location_data, capture_time, out_path, encoder,
                   write_ok, exif_calls, exif_ok, result, printed, notification,
                   last_screenshot, last_exif_data, events>>
    /\ previous' = IF IsSome(out_path) THEN Some(Finished) ELSE previous
    /\ UNCHANGED service_fields
    /\ UNCHANGED window_vars
    /\ UNCHANGED gui_vars


----------------------------------------------------------------------------
(* MainWindow.take_screenshot, main_window.py *)

\* ScreenshotService.take_screenshot(target_folder=..., file_name_format=...,
\* date_format=..., exif_data=..., image_format=...) as main_window.py calls it:
\* timestamp, path, frame grab and encode+write; a failed write is WriteFailed
ScreenshotService_path(folder, now, fmt) ==
    PathJoin(folder,
             str_format(_file_stem_format, strftime(now)) \o "."
             \o _settings_by_image_format[fmt].extension)

\* the take-screenshot button or hotkey fires the slot
MW_take_screenshot(fmt) ==
    /\ pc = "idle"
    /\ handler \in {"none", "mw"}       \* one version of the program per run
    /\ ncalls < MaxCalls
    /\ ncalls' = ncalls + 1
    /\ handler' = "mw"
    /\ pc' = "get_flight_data"
    /\ image_format' = fmt
    /\ sim_outcome' = "pending"
    /\ location_data' = None
    /\ capture_time' = None
    /\ out_path' = None
    /\ encoder' = NewImageWriter
    /\ write_ok' = None
    /\ exif_calls' = <<>>
    /\ exif_ok' = None
    /\ result' = NoResult
    /\ printed' = <<>>
    /\ notification' = NoNotification
    /\ events' = <<>>
    /\ UNCHANGED <<clock, disk, target_folder, last_screenshot, last_exif_data>>
    /\ UNCHANGED <<previous, service_fields>>
    /\ UNCHANGED window_vars
    /\ UNCHANGED gui_vars

\* lines 73-82: on SimServiceError exif_data = mock_exif_data
MW_get_flight_data(answer) ==
    /\ handler = "mw" /\ pc = "get_flight_data"
    /\ events' = Append(events, "sim")
    /\ IF answer.kind = "raise"
       THEN /\ sim_outcome' = "raised"
            /\ location_data' = Some(mock_exif_data)
       ELSE /\ sim_outcome' = answer.kind
            /\ location_data' = answer.data
    /\ pc' = "service"
    /\ UNCHANGED <<clock, disk, target_folder, ncalls, handler, image_format,
                   capture_time, out_path, encoder, write_ok, exif_calls, exif_ok,
                   result, printed, notification, last_screenshot, last_exif_data>>
    /\ UNCHANGED <<previous, service_fields>>
    /\ UNCHANGED window_vars
    /\ UNCHANGED gui_vars

\* lines 84-90: screenshot = self._screenshot_service.take_screenshot(...)
MW_service_take_screenshot(ok) ==
    /\ handler = "mw" /\ pc = "service"
    /\ LET path == ScreenshotService_path(target_folder, clock, image_format)
       IN  /\ events' = events \o <<"clock", "grab", "write">>
           /\ capture_time' = Some(clock)
           /\ out_path' = Some(path)
           /\ encoder' = ConfigureWriter(path, image_format)
           /\ disk' = WriteImage(disk, path, ncalls, ok)
           /\ write_ok' = Some(ok)
    /\ IF ok
       THEN pc' = "metadata" /\ UNCHANGED result
       ELSE pc' = "done" /\ result' = Returned("exception", "WriteFailed")
    /\ UNCHANGED <<clock, target_folder, ncalls, handler, image_format, sim_outcome,
                   location_data, exif_calls, exif_ok, printed, notification,
                   last_screenshot, last_exif_data>>
    /\ UNCHANGED <<previous, service_fields>>
    /\ UNCHANGED window_vars
    /\ UNCHANGED gui_vars

\* MainWindow._set_last_opened_screenshot: the fields it assigns
_set_last_opened_screenshot(path, exif_data) ==
    /\ last_screenshot' = Some(path)
    /\ last_exif_data' = exif_data

\* lines 92-109: metadata write, notification, bookkeeping, return value
MW_write_data(ok) ==
    /\ handler = "mw" /\ pc = "metadata"
    /\ IF Truthy(location_data)
       THEN /\ ok \in ExifAnswers(disk, Get(out_path))
            /\ events' = Append(events, "exif")
            /\ exif_calls' = Append(exif_calls,
                                    [data |-> Get(location_data), path |-> Get(out_path)])
            /\ disk' = EmbedExif(disk, Get(out_path), Get(location_data), ok)
            /\ exif_ok' = Some(ok)
       ELSE /\ ok = TRUE
            /\ UNCHANGED <<events, exif_calls, disk, exif_ok>>
    /\ IF Truthy(location_data) /\ ~ok
       THEN /\ notification' = [color |-> "error",
                                message |-> "Could not write metadata to screenshot"]
            /\ result' = Returned("bool", "False")
            /\ UNCHANGED <<last_screenshot, last_exif_data>>
       ELSE /\ notification' = [color |-> "success", message |-> Get(out_path)]
            /\ _set_last_opened_screenshot(Get(out_path), location_data)
            /\ result' = Returned("bool", "True")
    /\ pc' = "done"
    /\ UNCHANGED <<clock, target_folder, ncalls, handler, image_format, sim_outcome,
                   location_data, capture_time, out_path, encoder, write_ok, printed>>
    /\ UNCHANGED <<previous, service_fields>>
    /\ UNCHANGED window_vars
    /\ UNCHANGED gui_vars

\* the slot has returned; the window waits for the next trigger
MW_finished ==
    /\ handler = "mw" /\ pc = "done"
    /\ pc' = "idle"
    /\ UNCHANGED <<clock, disk, target_folder, ncalls, handler, image_format,
                   sim_outcome, location_data, capture_time, out_path, encoder,
                   write_ok, exif_calls, exif_ok, result, printed, notification,
                   last_screenshot, last_exif_data, events>>
    /\ previous' = IF IsSome(out_path) THEN Some(Finished) ELSE previous
    /\ UNCHANGED service_fields
    /\ UNCHANGED window_vars
    /\ UNCHANGED gui_vars

\* time passes, between and during captures
Tick ==
    /\ clock < MaxClock
    /\ clock' = clock + 1
    /\ UNCHANGED <<disk, target_folder, ncalls, handler, pc, image_format,
                   sim_outcome, location_data, capture_time, out_path, encoder,
                   write_ok, exif_calls, exif_ok, result, printed, notification,
                   last_screenshot, last_exif_data, events>>
    /\ UNCHANGED <<previous, service_fields>>
    /\ UNCHANGED window_vars
    /\ UNCHANGED gui_vars

----------------------------------------------------------------------------
(* The capture pipeline as a whole *)

EmptyDisk == [p \in {} |-> [image |-> 0, exif |-> None]]

\* msfs_geoshot main window: the input widgets' change signals, each with one handler
Signals == {"select_format.currentTextChanged", "select_hotkey.keySequenceChanged",
            "minimize_to_tray.stateChanged", "start_to_tray.stateChanged",
            "play_sound.stateChanged", "show_notification.stateChanged"}

\* a widget or a setting holds the default value or another one
WidgetValues == {"default", "other"}

\* AppSettings.restore_defaults()
restore_defaults == [s \in Signals |-> "default"]

\* the main window after __init__: UI loaded from the settings, then every signal
\* connected once; no screenshot yet and the location button hidden
WindowBuilt(stored) ==
    /\ settings = stored
    /\ widgets = stored
    /\ connections = [s \in Signals |-> 1]
    /\ reload = [connections |-> [s \in Signals |-> 0], handler_calls |-> 0]
    /\ restores = 0
    /\ last_metadata = None
    /\ shown_screenshot = None
    /\ view_last_location = [visible |-> FALSE, enabled |-> FALSE]
    /\ delivered = <<>>
    /\ opened = [clicked |-> FALSE, at |-> 0, url |-> None, printed |-> FALSE]

NoGui == WindowBuilt(restore_defaults)

NoWindows ==
    /\ processes = <<>>
    /\ windows = <<>>
    /\ handles = {}
    /\ lookup = [status |-> "none", ids |-> <<>>, name |-> ""]
    /\ winop = [op |-> "none", id |-> 0, stale |-> FALSE, status |-> "none", value |-> ""]

InitCapture ==
    /\ clock = 0
    /\ disk = EmptyDisk
    /\ target_folder \in TargetFolders
    /\ ncalls = 0
    /\ handler = "none"
    /\ pc = "idle"
    /\ image_format = "tiff"
    /\ sim_outcome = "pending"
    /\ location_data = None
    /\ capture_time = None
    /\ out_path = None
    /\ encoder = NewImageWriter
    /\ write_ok = None
    /\ exif_calls = <<>>
    /\ exif_ok = None
    /\ result = NoResult
    /\ printed = <<>>
    /\ notification = NoNotification
    /\ last_screenshot = None
    /\ last_exif_data = None
    /\ events = <<>>
    /\ previous = None
    /\ service_fields = [_sim_service |-> "SimService", _exif_service |-> "ExifService"]

Init == InitCapture /\ NoWindows /\ NoGui

Next ==
    \/ \E fmt \in ImageFormat : Svc_take_screenshot(fmt)
    \/ \E answer \in SimAnswers : Svc_get_current_location(answer)
    \/ Svc_get_new_screenshot_path
    \/ \E ok \in BOOLEAN : Svc_grab_screenshot(ok)
    \/ \E ok \in BOOLEAN : Svc_write_metadata(ok)
    \/ Svc_finished
    \/ \E fmt \in ImageFormat : MW_take_screenshot(fmt)
    \/ \E answer \in SimAnswers : MW_get_flight_data(answer)
    \/ \E ok \in BOOLEAN : MW_service_take_screenshot(ok)
    \/ \E ok \in BOOLEAN : MW_write_data(ok)
    \/ MW_finished
    \/ Tick

Spec == Init /\ [][Next]_vars


----------------------------------------------------------------------------
(* windows.py: the process and window locator *)

MaxProcs == 3          \* running processes
MaxWindows == 3        \* top-level windows

ProcessNames == {"FlightSimulator.exe", "explorer.exe"}
QueryNames == ProcessNames \cup {"nonexistent.exe"}

\* the process at position i of psutil.process_iter() has this pid
PidAt(i) == 4 * i
\* the window at position i of the EnumWindows order has this handle; handles do not
\* follow the enumeration order
WindowIdAt(i) == IF i % 2 = 1 THEN 100 + i ELSE 50 + i

RunningPids(procs) == {procs[i].pid : i \in DOMAIN procs}

RECURSIVE process_iter_loop(_, _, _)
\* lines 19-25: the for/else over psutil.process_iter(); Some(pid) at the break,
\* None when the loop ran to its end (the else branch)
process_iter_loop(procs, process_name, i) ==
    IF i > Len(procs) THEN None
    ELSE IF procs[i].name = process_name THEN Some(procs[i].pid)
    ELSE process_iter_loop(procs, process_name, i + 1)

\* enum_cb without the IsWindowVisible test
enum_cb_any_visibility(w, acc, target_pid, running) ==
    IF w.pid \notin running THEN [acc EXCEPT !.status = "NoSuchProcess"]
    ELSE IF w.pid = target_pid THEN [acc EXCEPT !.ids = Append(@, w.id)]
    ELSE acc

\* lines 29-35: enum_cb on one window; acc is [status, ids]
enum_cb(w, acc, target_pid, running) ==
    IF ~w.visible THEN acc
    ELSE IF w.pid \notin running THEN [acc EXCEPT !.status = "NoSuchProcess"]
    ELSE IF w.pid = target_pid THEN [acc EXCEPT !.ids = Append(@, w.id)]
    ELSE acc

RECURSIVE EnumWindows(_, _, _, _, _)
\* line 37: win32gui.EnumWindows calls enum_cb window by window and stops at an exception
EnumWindows(wins, i, acc, target_pid, running) ==
    IF i > Len(wins) \/ acc.status # "ok" THEN acc
    ELSE EnumWindows(wins, i + 1, enum_cb(wins[i], acc, target_pid, running),
                     target_pid, running)

\* the lookup without the for loop's else branch: no match leaves target_pid None
get_window_ids_without_else(process_name, procs, wins) ==
    LET target_pid == process_iter_loop(procs, process_name, 1)
    IN  EnumWindows(wins, 1, [status |-> "ok", ids |-> <<>>],
                    IF IsSome(target_pid) THEN Get(target_pid) ELSE 0,
                    RunningPids(procs))

\* get_window_ids_by_process_name
get_window_ids_by_process_name(process_name, procs, wins) ==
    LET target_pid == process_iter_loop(procs, process_name, 1)
    IN  IF ~IsSome(target_pid)
        THEN [status |-> "OSError", ids |-> <<>>]
        ELSE EnumWindows(wins, 1, [status |-> "ok", ids |-> <<>>],
                         Get(target_pid), RunningPids(procs))

WindowExists(wins, window_id) == \E i \in DOMAIN wins : wins[i].id = window_id
WindowOf(wins, window_id) == wins[CHOOSE i \in DOMAIN wins : wins[i].id = window_id]

\* get_window_title_by_window_id: win32gui.GetWindowText gives the empty string for a
\* handle that is no window
get_window_title_by_window_id(wins, window_id) ==
    IF WindowExists(wins, window_id)
    THEN [status |-> "ok", value |-> WindowOf(wins, window_id).title]
    ELSE [status |-> "ok", value |-> ""]

\* raise_window_to_foreground: win32gui.SetForegroundWindow raises pywintypes.error
\* for a handle that is no window
raise_window_to_foreground(wins, window_id) ==
    IF WindowExists(wins, window_id)
    THEN [status |-> "ok", value |-> "None"]
    ELSE [status |-> "pywintypes.error", value |-> "Invalid window handle"]

\* get_window_rectangle: win32gui.GetWindowRect raises pywintypes.error for a handle
\* that is no window
get_window_rectangle(wins, window_id) ==
    IF WindowExists(wins, window_id)
    THEN [status |-> "ok", value |-> "WindowRectangle"]
    ELSE [status |-> "pywintypes.error", value |-> "Invalid window handle"]

\* a caller looks the simulator's windows up and keeps the handles it was given
Locate(process_name) ==
    /\ LET r == get_window_ids_by_process_name(process_name, processes, windows)
       IN  /\ lookup' = [status |-> r.status, ids |-> r.ids, name |-> process_name]
           /\ handles' = IF r.status = "ok" THEN {r.ids[i] : i \in DOMAIN r.ids}
                         ELSE handles
    /\ UNCHANGED <<processes, windows, winop>>
    /\ UNCHANGED capture_vars
    /\ UNCHANGED gui_vars

\* the user or the owning program closes a window
CloseWindow(i) ==
    /\ i \in DOMAIN windows
    /\ windows' = SubSeq(windows, 1, i - 1) \o SubSeq(windows, i + 1, Len(windows))
    /\ UNCHANGED <<processes, handles, lookup, winop>>
    /\ UNCHANGED capture_vars
    /\ UNCHANGED gui_vars

WinOp(op, h, r) ==
    /\ winop' = [op |-> op, id |-> h, stale |-> ~WindowExists(windows, h),
                 status |-> r.status, value |-> r.value]
    /\ UNCHANGED <<processes, windows, handles, lookup>>
    /\ UNCHANGED capture_vars
    /\ UNCHANGED gui_vars

GetTitle(h) ==
    h \in handles /\ WinOp("title", h, get_window_title_by_window_id(windows, h))

GetRectangle(h) ==
    h \in handles /\ WinOp("rectangle", h, get_window_rectangle(windows, h))

RaiseToForeground(h) ==
    h \in handles /\ WinOp("raise", h, raise_window_to_foreground(windows, h))

\* every OS state: up to MaxProcs processes, up to MaxWindows windows, each window
\* owned by a running process
ProcessLists ==
    UNION { [1..n -> ProcessNames] : n \in 0..MaxProcs }

WindowLists(np) ==
    UNION { [1..n -> (1..np) \X BOOLEAN] : n \in 0..MaxWindows }

InitLocator ==
    /\ InitCapture
    /\ target_folder = "/out"
    /\ \E names \in ProcessLists :
         /\ processes = [i \in DOMAIN names |-> [name |-> names[i], pid |-> PidAt(i)]]
         /\ \E ws \in WindowLists(Len(names)) :
              windows = [i \in DOMAIN ws |->
                            [id |-> WindowIdAt(i), pid |-> PidAt(ws[i][1]),
                             visible |-> ws[i][2], title |-> "Microsoft Flight Simulator"]]
    /\ handles = {}
    /\ lookup = [status |-> "none", ids |-> <<>>, name |-> ""]
    /\ winop = [op |-> "none", id |-> 0, stale |-> FALSE, status |-> "none", value |-> ""]
    /\ NoGui

\* the locator as a function of the OS state: every lookup on every OS state
NextLocator == \E n \in QueryNames : Locate(n)

SpecLocator == InitLocator /\ [][NextLocator]_vars

\* handles in use while windows close: the simulator and one other program run
InitHandles ==
    /\ InitCapture
    /\ target_folder = "/out"
    /\ processes = <<[name |-> "FlightSimulator.exe", pid |-> PidAt(1)],
                     [name |-> "explorer.exe", pid |-> PidAt(2)]>>
    /\ \E ws \in WindowLists(Len(processes)) :
         windows = [i \in DOMAIN ws |->
                       [id |-> WindowIdAt(i), pid |-> PidAt(ws[i][1]),
                        visible |-> ws[i][2], title |-> "Microsoft Flight Simulator"]]
    /\ handles = {}
    /\ lookup = [status |-> "none", ids |-> <<>>, name |-> ""]
    /\ winop = [op |-> "none", id |-> 0, stale |-> FALSE, status |-> "none", value |-> ""]
    /\ NoGui

NextHandles ==
    \/ \E n \in QueryNames : Locate(n)
    \/ \E i \in 1..MaxWindows : CloseWindow(i)
    \/ \E h \in handles : GetTitle(h)
    \/ \E h \in handles : GetRectangle(h)
    \/ \E h \in handles : RaiseToForeground(h)

SpecHandles == InitHandles /\ [][NextHandles]_vars


----------------------------------------------------------------------------
(* What a finished capture shows to its caller *)

Done == pc = "done"
ImageWritten == write_ok = Some(TRUE)
HasGPS(data) == IsSome(data.GPSLatitude) /\ IsSome(data.GPSLongitude)

\* the path the caller got: the service's return value, the main window's
\* "Screenshot saved" record
ReturnedPath ==
    IF handler = "svc"
    THEN (IF result.type = "Path" THEN Some(result.value) ELSE None)
    ELSE (IF result = Returned("bool", "True") THEN last_screenshot ELSE None)

\* the snapshot the caller got along with the path
ResultSnapshot ==
    IF handler = "mw" /\ result = Returned("bool", "True") THEN last_exif_data
    ELSE IF handler = "svc" /\ result.type = "Path" /\ exif_ok = Some(TRUE)
         THEN Some(exif_calls[1].data)
    ELSE None

\* the caller can tell the outcome from an ordinary success
FailureSurfaced ==
    \/ result.type = "exception"
    \/ result = Returned("bool", "False")
    \/ result.type = "NoneType"
    \/ notification.color = "error"

\* the first event named a comes before the first event named b
Before(a, b) ==
    \E i, j \in DOMAIN events : events[i] = a /\ events[j] = b /\ i < j

----------------------------------------------------------------------------
(* Properties *)

\* C1: when the telemetry source raises SimServiceError, the capture still writes the
\* image and returns the output path with an absent snapshot.
C1_TelemetryFailureStillCaptures ==
    (Done /\ sim_outcome = "raised" /\ write_ok # Some(FALSE)) =>
        /\ ImageWritten
        /\ IsSome(out_path) /\ ReturnedPath = out_path
        /\ Get(out_path) \in DOMAIN disk
        /\ ResultSnapshot = None

\* C2: a failed image write fails the capture and no path is returned to the caller.
C2_WriteFailureFailsCapture ==
    (Done /\ write_ok = Some(FALSE)) =>
        /\ result.type = "exception"
        /\ ReturnedPath = None

\* C3: a metadata-writer failure after a written image is surfaced to the caller as an
\* outcome different from success, and the image's path is still returned.
C3_MetadataFailureSurfacedWithPath ==
    (Done /\ ImageWritten /\ exif_ok = Some(FALSE)) =>
        /\ FailureSurfaced
        /\ ReturnedPath = out_path

\* C4: after the image write succeeded and the metadata writer failed, the file this
\* capture wrote is still on disk at the resolved path.
C4_ImageKeptAfterMetadataFailure ==
    (pc \in {"done", "idle"} /\ ImageWritten /\ exif_ok = Some(FALSE)) =>
        /\ Get(out_path) \in DOMAIN disk
        /\ disk[Get(out_path)].image = ncalls

C4_Witness ==
    /\ Done /\ ImageWritten /\ exif_ok = Some(FALSE)
    /\ Get(out_path) \in DOMAIN disk

\* C5: with a telemetry snapshot that has GPS coordinates, the metadata writer is
\* invoked exactly once, only after the image has been written, with that snapshot and
\* the just-written path; the snapshot in the result is the input snapshot.
C5_MetadataWrittenOnceAfterImage ==
    (Done /\ result.type # "exception" /\ sim_outcome = "data"
          /\ HasGPS(Get(location_data))) =>
        /\ Len(exif_calls) = 1
        /\ exif_calls[1] = [data |-> Get(location_data), path |-> Get(out_path)]
        /\ Before("write", "exif")
        /\ ImageWritten
        /\ (IsSome(ReturnedPath) /\ exif_ok = Some(TRUE) => ResultSnapshot = location_data)

\* C6: without telemetry (source failed or gave no snapshot) the metadata writer is
\* never invoked, the result's snapshot is absent, and nothing is embedded.
C6_NoTelemetryNoMetadata ==
    (Done /\ sim_outcome \in {"raised", "none"}) =>
        /\ exif_calls = <<>>
        /\ ResultSnapshot = None
        /\ (IsSome(out_path) /\ Get(out_path) \in DOMAIN disk /\ ImageWritten
              => disk[Get(out_path)].exif = None)

----------------------------------------------------------------------------
(* Locator properties *)

Matches(process_name) == {i \in DOMAIN processes : processes[i].name = process_name}
FirstMatch(process_name) ==
    CHOOSE i \in Matches(process_name) : \A j \in Matches(process_name) : i <= j
PositionOf(window_id) == CHOOSE i \in DOMAIN windows : windows[i].id = window_id

\* C7: a name that matches no running process gives the process-not-found error and no
\* list; the empty list comes only from a matched process without visible windows.
C7_NoProcessIsAnError ==
    lookup.status # "none" =>
        /\ (Matches(lookup.name) = {} => lookup.status = "OSError")
        /\ (lookup.status = "OSError" => lookup.ids = <<>> /\ Matches(lookup.name) = {})
        /\ (lookup.status = "ok" /\ lookup.ids = <<>> =>
              /\ Matches(lookup.name) # {}
              /\ ~\E i \in DOMAIN windows :
                    /\ windows[i].visible
                    /\ windows[i].pid = processes[FirstMatch(lookup.name)].pid)

C7_Witness ==
    /\ lookup.status = "OSError"
    /\ lookup.name = "nonexistent.exe"
    /\ \E i \in DOMAIN windows : windows[i].visible

\* C8: when a process has the requested name, the result is exactly the visible
\* windows of the first such process, in enumeration order, and the call succeeds
\* whatever other windows exist.
C8_WindowsOfFirstMatch ==
    (lookup.status # "none" /\ Matches(lookup.name) # {}) =>
        LET target == processes[FirstMatch(lookup.name)].pid
            wanted == {windows[i].id : i \in {k \in DOMAIN windows :
                                                windows[k].visible /\ windows[k].pid = target}}
        IN  /\ lookup.status = "ok"
            /\ {lookup.ids[i] : i \in DOMAIN lookup.ids} = wanted
            /\ Len(lookup.ids) = Cardinality(wanted)
            /\ \A i, j \in DOMAIN lookup.ids :
                  i < j => PositionOf(lookup.ids[i]) < PositionOf(lookup.ids[j])

C8_Witness ==
    /\ lookup.status = "ok" /\ Len(lookup.ids) >= 1
    /\ Cardinality(Matches(lookup.name)) >= 2
    /\ \E i \in DOMAIN windows :
          /\ windows[i].visible
          /\ windows[i].pid # processes[FirstMatch(lookup.name)].pid
          /\ \E k \in Matches(lookup.name) : processes[k].pid = windows[i].pid
    /\ \E i \in DOMAIN windows :
          /\ ~windows[i].visible
          /\ windows[i].pid = processes[FirstMatch(lookup.name)].pid

\* C9: on a handle whose window has been closed, the title, rectangle and raise calls
\* each fail with an error and give no normal value.
C9_StaleHandleIsAnError ==
    (winop.op # "none" /\ winop.stale) => winop.status # "ok"

\* C10: the settings table covers png, jpg and tiff, each format has exactly one of
\* quality and compression, and the values are those of the table.
C10_FormatProfiles ==
    /\ DOMAIN _settings_by_image_format = ImageFormat
    /\ image_format \in DOMAIN _settings_by_image_format
    /\ \A f \in ImageFormat :
          IsSome(_settings_by_image_format[f].quality)
              # IsSome(_settings_by_image_format[f].compression)
    /\ _settings_by_image_format["png"] =
          [extension |-> "png", quality |-> None, compression |-> Some(100),
           optimized_write |-> Some(TRUE), progressive_scan_write |-> Some(TRUE)]
    /\ _settings_by_image_format["jpg"] =
          [extension |-> "jpg", quality |-> Some(100), compression |-> None,
           optimized_write |-> None, progressive_scan_write |-> None]
    /\ _settings_by_image_format["tiff"] =
          [extension |-> "tiff", quality |-> None, compression |-> Some(1),
           optimized_write |-> None, progressive_scan_write |-> None]

C10_Witness ==
    /\ pc = "metadata" /\ image_format = "jpg"
    /\ encoder.quality = _settings_by_image_format["jpg"].quality
    /\ encoder.compression = None



----------------------------------------------------------------------------
(* Encoder configuration and output path *)

CountOf(seq, x) == Cardinality({i \in DOMAIN seq : seq[i] = x})

\* C11: when the write is issued the encoder carries exactly the fields present in the
\* format's profile, with the profile's values, and no absent field; there is one write.
C11_EncoderGetsPresentFieldsOnly ==
    IsSome(write_ok) =>
        /\ CountOf(events, "write") = 1
        /\ encoder.fileName = out_path /\ encoder.format = Some(image_format)
        /\ (image_format = "png" =>
              /\ encoder.compression = Some(100) /\ encoder.quality = None
              /\ encoder.optimizedWrite = Some(TRUE)
              /\ encoder.progressiveScanWrite = Some(TRUE))
        /\ (image_format = "jpg" =>
              /\ encoder.quality = Some(100) /\ encoder.compression = None
              /\ encoder.optimizedWrite = None /\ encoder.progressiveScanWrite = None)
        /\ (image_format = "tiff" =>
              /\ encoder.compression = Some(1) /\ encoder.quality = None
              /\ encoder.optimizedWrite = None /\ encoder.progressiveScanWrite = None)

C11_Witness ==
    /\ handler = "svc" /\ pc = "metadata" /\ image_format = "tiff"
    /\ write_ok = Some(TRUE) /\ encoder.compression = Some(1) /\ encoder.quality = None

\* the extension the claim names for each format
ClaimedExtension(fmt) ==
    CASE fmt = "png" -> "png" [] fmt = "jpg" -> "jpg" [] fmt = "tiff" -> "tiff"

\* C12: the resolved path is the target folder joined with "<stem>.<extension>", the
\* stem being MSFS_{date} with the formatted capture date put in; /out, 12:00:00 on
\* 2024-01-01 and png give /out/MSFS_2024-01-01-120000.png.
C12_PathIsFolderStemExtension ==
    (handler = "svc" /\ IsSome(out_path)) =>
        /\ Get(out_path) = target_folder \o "/" \o "MSFS_" \o strftime(Get(capture_time))
                             \o "." \o ClaimedExtension(image_format)
        /\ (target_folder = "/out" /\ Get(capture_time) \div TicksPerSecond = 0
               /\ image_format = "png"
              => Get(out_path) = "/out/MSFS_2024-01-01-120000.png")

C12_Witness ==
    /\ handler = "svc" /\ pc = "grab" /\ image_format = "png"
    /\ out_path = Some("/out/MSFS_2024-01-01-120000.png")


----------------------------------------------------------------------------
(* Repeated captures *)

SameSecond(t1, t2) == t1 \div TicksPerSecond = t2 \div TicksPerSecond

\* this capture and the previous one fall into one second, with one format
Repeat ==
    /\ handler = "svc" /\ IsSome(previous) /\ IsSome(out_path)
    /\ image_format = Get(previous).image_format
    /\ SameSecond(Get(capture_time), Get(previous).capture_time)

\* C13: two captures of the service within one second, with the same folder, template
\* and format, resolve to equal paths; the second is neither rejected nor renamed and
\* its write replaces the file.
C13_SameSecondSamePath ==
    Repeat =>
        /\ Get(out_path) = Get(previous).out_path
        /\ (IsSome(write_ok) => encoder.fileName = Some(Get(previous).out_path))
        /\ (write_ok = Some(TRUE) => disk[Get(previous).out_path].image = ncalls)
        /\ (Done => result = Returned("Path", Get(previous).out_path))

C13_Witness ==
    /\ Repeat /\ Done /\ write_ok = Some(TRUE)
    /\ Get(capture_time) # Get(previous).capture_time
    /\ result = Returned("Path", Get(previous).out_path)


----------------------------------------------------------------------------
(* The capture timestamp *)

----------------------------------------------------------------------------
(* The service between calls *)

\* what a returned call of the service gave back and asked of the metadata writer, as
\* a function of its argument, its clock reading and the telemetry answer alone
CallOutcome ==
    (handler = "svc" /\ Done) =>
        /\ result = IF sim_outcome = "raised" THEN Returned("NoneType", "")
                    ELSE Returned("Path",
                                  _get_new_screenshot_path(target_folder, Get(capture_time),
                                                           image_format))
        /\ exif_calls = IF sim_outcome = "data"
                        THEN <<[data |-> Get(location_data), path |-> result.value]>>
                        ELSE <<>>

\* C15: no step changes the service's fields (telemetry source, metadata writer, target
\* folder), and a call's outcome is fixed by its argument, the clock and the
\* collaborators' answers in that call, whatever calls came before.
C15_ServiceKeepsNoState ==
    /\ [](CallOutcome)
    /\ [][target_folder' = target_folder /\ service_fields' = service_fields]_vars

C15_Witness ==
    /\ handler = "svc" /\ Done /\ ncalls = 2 /\ IsSome(previous)
    /\ Get(previous).image_format # image_format
    /\ result.type = "Path"
    /\ target_folder = "/shots"


----------------------------------------------------------------------------
(* msfs_geoshot main window: restore defaults and the input widgets' signals *)

MaxRestores == 2       \* restore-defaults clicks per behaviour

RECURSIVE SumOver(_, _)
SumOver(S, f) ==
    IF S = {} THEN 0
    ELSE LET s == CHOOSE x \in S : TRUE IN f[s] + SumOver(S \ {s}, f)

\* MainWindow._setup_input_widget_connections: one more connection on every signal
_setup_input_widget_connections(c) == [s \in Signals |-> c[s] + 1]

\* MainWindow._tear_down_input_widget_connections: disconnect on five signals, and
\* connect on start_to_tray.stateChanged (lines 195-197)
_tear_down_input_widget_connections(c) ==
    [s \in Signals |->
        IF s = "start_to_tray.stateChanged" THEN c[s] + 1
        ELSE IF c[s] > 0 THEN c[s] - 1 ELSE 0]

\* does the widget emit its signal when _load_ui_state_from_settings sets it: the
\* format box is cleared and refilled, the others emit when their value changes
EmitsOnLoad(s, old, new) ==
    IF s = "select_format.currentTextChanged" THEN TRUE ELSE old[s] # new[s]

\* handler invocations while _load_ui_state_from_settings runs with connections c
HandlerCallsOnLoad(c, old, new) ==
    SumOver(Signals, [s \in Signals |-> IF EmitsOnLoad(s, old, new) THEN c[s] ELSE 0])

\* MainWindow._on_restore_defaults
RestoreDefaults ==
    /\ restores < MaxRestores
    /\ LET stored == restore_defaults
           torn == _tear_down_input_widget_connections(connections)
       IN  /\ settings' = stored     \* the handlers called on load store the value again
           /\ widgets' = stored
           /\ reload' = [connections |-> torn,
                         handler_calls |-> HandlerCallsOnLoad(torn, widgets, stored)]
           /\ connections' = _setup_input_widget_connections(torn)
    /\ restores' = restores + 1
    /\ UNCHANGED <<last_metadata, shown_screenshot, view_last_location, delivered, opened>>
    /\ UNCHANGED capture_vars
    /\ UNCHANGED window_vars

\* the user changes an input widget; its signal calls the handler once per connection
\* and the handler stores the new value
UserEdits(s, v) ==
    /\ widgets[s] # v
    /\ widgets' = [widgets EXCEPT ![s] = v]
    /\ settings' = IF connections[s] > 0 THEN [settings EXCEPT ![s] = v] ELSE settings
    /\ UNCHANGED <<connections, reload, restores, last_metadata, shown_screenshot,
                   view_last_location, delivered, opened>>
    /\ UNCHANGED capture_vars
    /\ UNCHANGED window_vars

InitSignals ==
    /\ InitCapture
    /\ target_folder = "/out"
    /\ NoWindows
    /\ \E stored \in [Signals -> WidgetValues] : WindowBuilt(stored)

NextSignals ==
    \/ RestoreDefaults
    \/ \E s \in Signals, v \in WidgetValues : UserEdits(s, v)

SpecSignals == InitSignals /\ [][NextSignals]_vars

\* C16: while a restore-defaults reloads the UI every input signal is disconnected, so
\* no settings handler runs, and afterwards every signal has exactly one connection.
C16_ReloadCallsNoHandler ==
    restores > 0 =>
        /\ \A s \in Signals : reload.connections[s] = 0
        /\ reload.handler_calls = 0
        /\ \A s \in Signals : connections[s] = 1


----------------------------------------------------------------------------
(* msfs_geoshot main window: screenshot results and the view-last-location button *)

MaxResults == 3        \* screenshot results delivered per behaviour

Latitudes == {None, Some(10), Some(20)}
Longitudes == {None, Some(30)}

\* ScreenShotResult.metadata: absent, or a Metadata whose coordinates may be absent
Metadatas ==
    {None} \cup {Some([GPSLatitude |-> la, GPSLongitude |-> lo]) :
                    la \in Latitudes, lo \in Longitudes}

\* ScreenShotResult.path
ResultPaths == {"/out/a.jpg", "/out/b.jpg"}

\* MainWindow._maps_url.format(latitude=..., longitude=...)
_maps_url(latitude, longitude) ==
    <<"https://www.google.com/maps/search/?api=1&query=", latitude, ",", longitude>>

\* the test of lines 313-317
HasBothCoordinates(metadata) ==
    /\ IsSome(metadata)
    /\ IsSome(Get(metadata).GPSLatitude)
    /\ IsSome(Get(metadata).GPSLongitude)

\* variant: _last_metadata assigned only when the coordinates are present
Geoshot_set_last_opened_screenshot_keeping(path, metadata) ==
    /\ shown_screenshot' = Some(path)
    /\ IF HasBothCoordinates(metadata)
       THEN /\ view_last_location' = [visible |-> TRUE, enabled |-> TRUE]
            /\ last_metadata' = metadata
       ELSE UNCHANGED <<view_last_location, last_metadata>>

\* MainWindow._set_last_opened_screenshot (msfs_geoshot)
Geoshot_set_last_opened_screenshot(path, metadata) ==
    /\ shown_screenshot' = Some(path)
    /\ view_last_location' = IF HasBothCoordinates(metadata)
                             THEN [visible |-> TRUE, enabled |-> TRUE]
                             ELSE view_last_location
    /\ last_metadata' = metadata

\* MainWindow.on_screenshot_taken; show is self._settings.show_notification
on_screenshot_taken(path, metadata, show) ==
    /\ Len(delivered) < MaxResults
    /\ delivered' = Append(delivered, metadata)
    /\ notification' = IF show THEN [color |-> "success", message |-> path]
                       ELSE notification
    /\ Geoshot_set_last_opened_screenshot(path, metadata)
    /\ UNCHANGED <<connections, widgets, settings, reload, restores, opened>>
    /\ UNCHANGED <<clock, disk, target_folder, ncalls, handler, pc, image_format,
                   sim_outcome, location_data, capture_time, out_path, encoder,
                   write_ok, exif_calls, exif_ok, result, printed,
                   last_screenshot, last_exif_data, events, previous, service_fields>>
    /\ UNCHANGED window_vars

\* MainWindow._on_open_last_location, reached by a click on the shown, enabled button
_on_open_last_location ==
    /\ view_last_location.visible /\ view_last_location.enabled
    /\ opened' =
          IF ~IsSome(last_metadata)
          THEN [clicked |-> TRUE, at |-> Len(delivered), url |-> None, printed |-> FALSE]
          ELSE LET latitude == Get(last_metadata).GPSLatitude
                   longitude == Get(last_metadata).GPSLongitude
               IN  IF latitude = None \/ longitude = None
                   THEN [clicked |-> TRUE, at |-> Len(delivered), url |-> None,
                         printed |-> TRUE]
                   ELSE [clicked |-> TRUE, at |-> Len(delivered),
                         url |-> Some(_maps_url(Get(latitude), Get(longitude))),
                         printed |-> FALSE]
    /\ UNCHANGED <<connections, widgets, settings, reload, restores, last_metadata,
                   shown_screenshot, view_last_location, delivered>>
    /\ UNCHANGED capture_vars
    /\ UNCHANGED window_vars

InitLastLocation ==
    /\ InitCapture
    /\ target_folder = "/out"
    /\ NoWindows
    /\ NoGui

NextLastLocation ==
    \/ \E path \in ResultPaths, metadata \in Metadatas, show \in BOOLEAN :
          on_screenshot_taken(path, metadata, show)
    \/ _on_open_last_location

SpecLastLocation == InitLastLocation /\ [][NextLastLocation]_vars

\* the result most recently delivered when the button was last clicked
LatestAtClick == delivered[opened.at]

\* C17: a click on view-last-location opens a URL only if the most recently delivered
\* screenshot's metadata has both latitude and longitude, and the URL is built from
\* exactly those two values (never from an earlier screenshot's); the button, once
\* shown and enabled, is never hidden or disabled again.
C17_OpensLatestLocationOnly ==
    /\ [](opened.clicked /\ IsSome(opened.url) =>
            /\ opened.at >= 1
            /\ HasBothCoordinates(LatestAtClick)
            /\ Get(opened.url) = _maps_url(Get(Get(LatestAtClick).GPSLatitude),
                                           Get(Get(LatestAtClick).GPSLongitude)))
    /\ [][view_last_location.visible /\ view_last_location.enabled =>
            view_last_location'.visible /\ view_last_location'.enabled]_vars

\* an earlier screenshot had coordinates, the latest has none, the button is still
\* shown and was clicked: no URL was opened
C17_Witness ==
    /\ opened.clicked
    /\ opened.at = 2
    /\ HasBothCoordinates(delivered[1])
    /\ ~HasBothCoordinates(delivered[2])
    /\ view_last_location.visible /\ view_last_location.enabled
    /\ opened.url = None

====
